---- MODULE Spec2Model ----
(***************************************************************************)
(* Model of pamfilico_python_stripe_sdk: the pydantic schema layer         *)
(* (models.py), the StripeService facade (stripe_service.py) and the       *)
(* exception taxonomy (exceptions.py).                                     *)
(*                                                                         *)
(* Encoding of Python values:                                              *)
(*   - a str that the code measures or tests (email, name, phone,          *)
(*     description) is a sequence of one-character strings; identifiers,   *)
(*     keys and class names are TLA+ strings;                              *)
(*   - an Optional value is a set: None == {} and Some(v) == {v};          *)
(*   - a dict is the set of its <<key, value>> items;                      *)
(*   - a keyword-argument set is a record over all keyword names whose     *)
(*     field is Omitted ({}) when the keyword is not passed and            *)
(*     Given(v) ({v}) when it is passed with the Python value v.           *)
(***************************************************************************)
EXTENDS Integers, Sequences, FiniteSets, TLC

VARIABLES
    stripe_api_key,  \* the module-global stripe.api_key
    services,        \* the StripeService instances constructed so far
    model,           \* the input model the caller has just constructed, if any
    op,              \* the operation that ran last
    self,            \* index in services of the instance it ran on (0: none)
    args,            \* its arguments
    outbound,        \* the provider calls it issued, in order
    reply,           \* what the provider answered to the last of them
    returned,        \* the value it returned, if it returned
    raised           \* the exception it raised, if it raised

vars == <<stripe_api_key, services, model, op, self, args, outbound, reply,
          returned, raised>>

(* ------------------------------ bounds -------------------------------- *)

MaxServices == 2
MaxPage == 2

(* --------------------------- Python values ---------------------------- *)

None == {}
Some(v) == {v}
Val(o) == CHOOSE v \in o : TRUE

Omitted == {}
Given(v) == {v}

\* bool(x) of an Optional[str]: None and "" are falsy
TruthyStr(o) == o # None /\ Val(o) # <<>>
\* bool(x) of an Optional mapping: None and the empty mapping are falsy
TruthyDict(o) == o # None /\ Val(o) # {}

\* dict(m): a new dict holding the items of the mapping m
dict(m) == {<<it[1], it[2]>> : it \in m}

Rep(n) == [i \in 1..n |-> "x"]

(* ---------------------------- schema layer ---------------------------- *)

NameMinLen == 1
NameMaxLen == 255
DescMaxLen == 500

InputFields == {"email", "name", "phone", "description", "metadata"}

AtPositions(s) == {i \in 1..Len(s) : s[i] = "@"}
DotPositions(s) == {i \in 1..Len(s) : s[i] = "."}

\* EmailStr: one "@", a non-empty local part, a domain with an inner dot
IsEmail(s) ==
    /\ Cardinality(AtPositions(s)) = 1
    /\ LET at == Val(AtPositions(s)) IN
         /\ at > 1
         /\ at + 1 < Len(s)
         /\ s[at + 1] # "."
         /\ s[Len(s)] # "."
         /\ \E d \in DotPositions(s) : d > at

Lower(c) ==
    CASE c = "A" -> "a"
      [] c = "B" -> "b"
      [] c = "C" -> "c"
      [] OTHER -> c

\* EmailStr returns the normalized address: the domain in lower case
NormalizeEmail(s) ==
    LET at == Val(AtPositions(s)) IN
    [i \in 1..Len(s) |-> IF i > at THEN Lower(s[i]) ELSE s[i]]

\* the value a keyword takes: the one given, else the field's default
FieldValue(kw, f, default) == IF kw[f] = Omitted THEN default ELSE Val(kw[f])

ValidEmail(v) == v = None \/ IsEmail(Val(v))
ValidName_NoMin(v) == v = None \/ Len(Val(v)) <= NameMaxLen
ValidName(v) == v = None \/ (Len(Val(v)) >= NameMinLen /\ Len(Val(v)) <= NameMaxLen)
ValidDescription(v) == v = None \/ Len(Val(v)) <= DescMaxLen

ValidCreate(kw) ==
    /\ ValidEmail(FieldValue(kw, "email", None))
    /\ ValidName(FieldValue(kw, "name", None))
    /\ ValidDescription(FieldValue(kw, "description", None))
    /\ FieldValue(kw, "metadata", Some({})) # None      \* Dict[str, Any]: not Optional

ValidUpdate(kw) ==
    /\ ValidEmail(FieldValue(kw, "email", None))
    /\ ValidName(FieldValue(kw, "name", None))
    /\ ValidDescription(FieldValue(kw, "description", None))

ValidatedEmail(v) == IF v = None THEN None ELSE Some(NormalizeEmail(Val(v)))

CustomerCreateInput(kw) ==
    [cls |-> "CustomerCreateInput",
     email |-> ValidatedEmail(FieldValue(kw, "email", None)),
     name |-> FieldValue(kw, "name", None),
     phone |-> FieldValue(kw, "phone", None),
     description |-> FieldValue(kw, "description", None),
     metadata |-> FieldValue(kw, "metadata", Some({}))]

CustomerUpdateInput(kw) ==
    [cls |-> "CustomerUpdateInput",
     email |-> ValidatedEmail(FieldValue(kw, "email", None)),
     name |-> FieldValue(kw, "name", None),
     phone |-> FieldValue(kw, "phone", None),
     description |-> FieldValue(kw, "description", None),
     metadata |-> FieldValue(kw, "metadata", None)]

\* CustomerData(**kw): id is required, metadata defaults to {}, the rest to None
CustomerData(kw) ==
    [id |-> Val(kw.id),
     email |-> FieldValue(kw, "email", None),
     name |-> FieldValue(kw, "name", None),
     phone |-> FieldValue(kw, "phone", None),
     created |-> FieldValue(kw, "created", None),
     balance |-> FieldValue(kw, "balance", None),
     currency |-> FieldValue(kw, "currency", None),
     delinquent |-> FieldValue(kw, "delinquent", None),
     description |-> FieldValue(kw, "description", None),
     metadata |-> FieldValue(kw, "metadata", {})]

CustomerResponse(data, meta) == [data |-> data, meta |-> meta]

CustomerListMeta(has_more, total_count, note) ==
    [has_more |-> has_more, total_count |-> total_count, note |-> note]

CustomerListResponse(data, meta) == [data |-> data, meta |-> meta]

(* -------------------------- error taxonomy ---------------------------- *)

StripeSDKException(cls, message, original_error) ==
    [cls |-> cls, message |-> message, original_error |-> original_error]

StripeApiErrorKinds ==
    {"StripeAuthenticationError", "StripeAPIError", "StripeInvalidRequestError"}

(* ------------------------ the provider boundary ----------------------- *)

ParamKeys == InputFields \cup {"limit", "starting_after"}

NoParams == [k \in ParamKeys |-> Omitted]

Keys(params) == {k \in ParamKeys : params[k] # Omitted}

\* one call into the provider's client library, made under the global key
StripeCall(fn, id, params) ==
    [fn |-> fn, id |-> id, params |-> params, api_key |-> stripe_api_key]

Plan == {<<"plan", "premium">>}

\* customer records the provider may answer with
Cus1 ==
    [id |-> Some("cus_1"), email |-> Some(<<"a", "@", "b", ".", "c">>),
     name |-> Some(<<"A">>), phone |-> Some(<<"+", "1">>),
     description |-> Some(<<"d">>), created |-> Some(1700000000),
     balance |-> Some(-250), currency |-> Some("usd"),
     delinquent |-> Some(TRUE), metadata |-> Some(Plan)]

Cus2 ==
    [id |-> Some("cus_2"), email |-> None, name |-> None, phone |-> None,
     description |-> None, created |-> None, balance |-> None,
     currency |-> None, delinquent |-> None, metadata |-> None]

Cus3 ==
    [id |-> Some("cus_3"), email |-> Some(<<"a", "@", "b", ".", "c">>),
     name |-> None, phone |-> Some(<<>>), description |-> Some(<<>>),
     created |-> Some(0), balance |-> Some(0), currency |-> None,
     delinquent |-> Some(FALSE), metadata |-> Some({})]

ProviderCustomers == {Cus1, Cus2, Cus3}

\* the provider's error classes; a provider error carries no original_error
ProviderErrorKinds ==
    {"stripe.error.AuthenticationError", "stripe.error.InvalidRequestError",
     "stripe.error.APIConnectionError"}

ProviderError(cls) == [cls |-> cls, message |-> "provider", original_error |-> None]

NoReply == [kind |-> "none", error |-> None, record |-> None, data |-> <<>>, has_more |-> FALSE]

ErrorReplies ==
    {[NoReply EXCEPT !.kind = "error", !.error = Some(ProviderError(c))] :
        c \in ProviderErrorKinds}

RecordReplies ==
    {[NoReply EXCEPT !.kind = "record", !.record = Some(c)] : c \in ProviderCustomers}

\* the provider lists its customers in one fixed order
Catalogue == <<Cus1, Cus2, Cus3>>

\* a page: at most MaxPage customers of the catalogue, in the catalogue's order
Pages ==
    UNION {{[i \in 1..n |-> Catalogue[ix[i]]] :
               ix \in {jx \in [1..n -> 1..Len(Catalogue)] :
                          \A i, j \in 1..n : i < j => jx[i] < jx[j]}} :
           n \in 0..MaxPage}

ListReplies ==
    {[NoReply EXCEPT !.kind = "list", !.data = p, !.has_more = h] :
        p \in Pages, h \in BOOLEAN}

(* ---------------------------- service facade -------------------------- *)

PageSizeCeiling == 100

Min(a, b) == IF a <= b THEN a ELSE b

\* create_customer: a field is sent when it is truthy
CreateParams_SendAll(data) ==
    [NoParams EXCEPT !.email = Given(data.email), !.name = Given(data.name),
                     !.phone = Given(data.phone),
                     !.description = Given(data.description),
                     !.metadata = Given(data.metadata)]

CreateParams(data) ==
    [k \in ParamKeys |->
        CASE k = "email" -> IF TruthyStr(data.email) THEN Given(data.email) ELSE Omitted
          [] k = "name" -> IF TruthyStr(data.name) THEN Given(data.name) ELSE Omitted
          [] k = "phone" -> IF TruthyStr(data.phone) THEN Given(data.phone) ELSE Omitted
          [] k = "description" ->
                IF TruthyStr(data.description) THEN Given(data.description) ELSE Omitted
          [] k = "metadata" ->
                IF TruthyDict(data.metadata) THEN Given(data.metadata) ELSE Omitted
          [] OTHER -> Omitted]

\* update_customer: a field is sent when it is not None
UpdateParams_Truthy(data) == CreateParams(data)

UpdateParams(data) ==
    [k \in ParamKeys |->
        CASE k \in InputFields -> IF data[k] # None THEN Given(data[k]) ELSE Omitted
          [] OTHER -> Omitted]

CapLimit_NoCap(limit) == limit

CapLimit(limit) == Min(limit, PageSizeCeiling)

ListParams(limit, starting_after) ==
    [NoParams EXCEPT
        !.limit = Given(CapLimit(limit)),
        !.starting_after =
            IF starting_after # None /\ Val(starting_after) # ""
            THEN Given(starting_after) ELSE Omitted]

\* metadata=dict(c.metadata) if c.metadata else {}
MetadataOf(c) == IF TruthyDict(c.metadata) THEN dict(Val(c.metadata)) ELSE {}

\* the CustomerData built by create_customer, get_customer, update_customer
\* and get_customer_by_email
SerializeCustomer(c) ==
    CustomerData([id |-> Given(c.id), email |-> Given(c.email),
                  name |-> Given(c.name), phone |-> Given(c.phone),
                  description |-> Given(c.description),
                  balance |-> Given(c.balance), currency |-> Given(c.currency),
                  delinquent |-> Given(c.delinquent),
                  created |-> Given(c.created),
                  metadata |-> Given(MetadataOf(c))])

\* the CustomerData built by list_customers: phone is not passed
SerializeListedCustomer(c) ==
    CustomerData([id |-> Given(c.id), email |-> Given(c.email),
                  name |-> Given(c.name), phone |-> Omitted,
                  description |-> Given(c.description),
                  balance |-> Given(c.balance), currency |-> Given(c.currency),
                  delinquent |-> Given(c.delinquent),
                  created |-> Given(c.created),
                  metadata |-> Given(MetadataOf(c))])

Note_AlwaysPlural(count) == "Found " \o ToString(count) \o " customers"

Note(count) ==
    IF count = 1
    THEN "Found " \o ToString(count) \o " customer"
    ELSE "Found " \o ToString(count) \o " customers"

(* ------------------------- the caller's inputs ------------------------ *)

Kw(email, name, phone, description, metadata) ==
    [email |-> email, name |-> name, phone |-> phone,
     description |-> description, metadata |-> metadata]

\* keyword sets the caller may construct an input model from
InputKwargs ==
    { Kw(Omitted, Omitted, Omitted, Omitted, Omitted),
      Kw(Given(Some(<<"a", "@", "B", ".", "c">>)), Given(Some(<<"A">>)),
         Omitted, Omitted, Omitted),
      Kw(Given(Some(<<"a", "@", "b", ".", "c">>)), Given(Some(Rep(NameMaxLen))),
         Given(Some(<<"+", "1">>)), Given(Some(Rep(DescMaxLen))),
         Given(Some(Plan))),
      Kw(Omitted, Omitted, Given(Some(<<>>)), Given(Some(<<>>)), Given(Some({}))),
      Kw(Given(None), Given(None), Given(None), Given(None), Given(None)),
      Kw(Omitted, Given(Some(<<>>)), Omitted, Omitted, Omitted),
      Kw(Omitted, Given(Some(Rep(NameMaxLen + 1))), Omitted, Omitted, Omitted),
      Kw(Omitted, Omitted, Omitted, Given(Some(Rep(DescMaxLen + 1))), Omitted),
      Kw(Given(Some(<<"a", ".", "b">>)), Omitted, Omitted, Omitted, Omitted) }

SecretKeys == {"sk_test_A", "sk_test_B"}
PublishableKeys == {"pk_test"}
CustomerIds == {"cus_1"}
LookupEmails == {<<"a", "@", "b", ".", "c">>}
\* <<limit, starting_after>> argument pairs of list_customers
ListArgs ==
    { <<-1, None>>, <<PageSizeCeiling, Some("cus_1")>>,
      <<PageSizeCeiling + 1, None>>, <<150, None>>, <<150, Some("")>> }

ValidationError ==
    [cls |-> "pydantic.ValidationError", message |-> "validation",
     original_error |-> None]

FacadeOps ==
    {"create_customer", "get_customer", "update_customer",
     "get_customer_by_email", "list_customers"}

(* ------------------------------- state -------------------------------- *)

Init ==
    /\ stripe_api_key = None
    /\ services = <<>>
    /\ model = None
    /\ op = "none"
    /\ self = 0
    /\ args = <<>>
    /\ outbound = <<>>
    /\ reply = NoReply
    /\ returned = None
    /\ raised = None

\* Constructing an input model: pydantic validates, no provider call.
\* Input models are transient: the caller passes the model to the next facade
\* call or drops it, so every other operation leaves model = None.
NewCustomerCreateInput ==
    \E kw \in InputKwargs :
        /\ op' = "CustomerCreateInput"
        /\ self' = 0
        /\ args' = [kw |-> kw]
        /\ outbound' = <<>>
        /\ reply' = NoReply
        /\ IF ValidCreate(kw)
           THEN /\ model' = Some(CustomerCreateInput(kw))
                /\ returned' = Some(CustomerCreateInput(kw))
                /\ raised' = None
           ELSE /\ model' = model
                /\ returned' = None
                /\ raised' = Some(ValidationError)
        /\ UNCHANGED <<stripe_api_key, services>>

NewCustomerUpdateInput ==
    \E kw \in InputKwargs :
        /\ op' = "CustomerUpdateInput"
        /\ self' = 0
        /\ args' = [kw |-> kw]
        /\ outbound' = <<>>
        /\ reply' = NoReply
        /\ IF ValidUpdate(kw)
           THEN /\ model' = Some(CustomerUpdateInput(kw))
                /\ returned' = Some(CustomerUpdateInput(kw))
                /\ raised' = None
           ELSE /\ model' = model
                /\ returned' = None
                /\ raised' = Some(ValidationError)
        /\ UNCHANGED <<stripe_api_key, services>>

\* StripeService.__init__
StripeService_init ==
    \E sk \in SecretKeys, pk \in PublishableKeys :
        /\ Len(services) < MaxServices
        /\ services' = Append(services, [secret_key |-> sk, publishable_key |-> pk])
        /\ stripe_api_key' = Some(sk)
        /\ op' = "__init__"
        /\ self' = Len(services) + 1
        /\ args' = [secret_key |-> sk, publishable_key |-> pk]
        /\ outbound' = <<>>
        /\ reply' = NoReply
        /\ returned' = None
        /\ raised' = None
        /\ model' = None

\* the common tail of the three single-customer operations: the provider
\* error propagates, else the record is serialized and wrapped
SingleOutcome(rep) ==
    IF rep.kind = "error"
    THEN /\ raised' = rep.error
         /\ returned' = None
    ELSE /\ raised' = None
         /\ returned' = Some(CustomerResponse(SerializeCustomer(Val(rep.record)), {}))

create_customer_Retry(s) ==
    \E rep \in ErrorReplies \cup RecordReplies :
        /\ model # None
        /\ Val(model).cls = "CustomerCreateInput"
        /\ op' = "create_customer"
        /\ self' = s
        /\ args' = [data |-> Val(model)]
        /\ outbound' =
              IF rep.kind = "error"
              THEN <<StripeCall("Customer.create", None, CreateParams(Val(model))),
                     StripeCall("Customer.create", None, CreateParams(Val(model)))>>
              ELSE <<StripeCall("Customer.create", None, CreateParams(Val(model)))>>
        /\ reply' = rep
        /\ SingleOutcome(rep)
        /\ model' = None
        /\ UNCHANGED <<stripe_api_key, services>>

create_customer(s) ==
    \E rep \in ErrorReplies \cup RecordReplies :
        /\ model # None
        /\ Val(model).cls = "CustomerCreateInput"
        /\ op' = "create_customer"
        /\ self' = s
        /\ args' = [data |-> Val(model)]
        /\ outbound' = <<StripeCall("Customer.create", None, CreateParams(Val(model)))>>
        /\ reply' = rep
        /\ SingleOutcome(rep)
        /\ model' = None
        /\ UNCHANGED <<stripe_api_key, services>>

get_customer(s) ==
    \E customer_id \in CustomerIds, rep \in ErrorReplies \cup RecordReplies :
        /\ op' = "get_customer"
        /\ self' = s
        /\ args' = [customer_id |-> customer_id]
        /\ outbound' = <<StripeCall("Customer.retrieve", Some(customer_id), NoParams)>>
        /\ reply' = rep
        /\ SingleOutcome(rep)
        /\ model' = None
        /\ UNCHANGED <<stripe_api_key, services>>

update_customer(s) ==
    \E customer_id \in CustomerIds, rep \in ErrorReplies \cup RecordReplies :
        /\ model # None
        /\ Val(model).cls = "CustomerUpdateInput"
        /\ op' = "update_customer"
        /\ self' = s
        /\ args' = [customer_id |-> customer_id, data |-> Val(model)]
        /\ outbound' = <<StripeCall("Customer.modify", Some(customer_id),
                                    UpdateParams(Val(model)))>>
        /\ reply' = rep
        /\ SingleOutcome(rep)
        /\ model' = None
        /\ UNCHANGED <<stripe_api_key, services>>

SerializePage(data) == [i \in 1..Len(data) |-> SerializeCustomer(data[i])]

SerializeListedPage_Reversed(data) ==
    [i \in 1..Len(data) |-> SerializeListedCustomer(data[Len(data) + 1 - i])]

SerializeListedPage(data) == [i \in 1..Len(data) |-> SerializeListedCustomer(data[i])]

get_customer_by_email(s) ==
    \E email \in LookupEmails, rep \in ErrorReplies \cup ListReplies :
        /\ op' = "get_customer_by_email"
        /\ self' = s
        /\ args' = [email |-> email]
        /\ outbound' = <<StripeCall("Customer.list", None,
                                    [NoParams EXCEPT !.email = Given(Some(email))])>>
        /\ reply' = rep
        /\ IF rep.kind = "error"
           THEN /\ raised' = rep.error
                /\ returned' = None
           ELSE LET customers_data == SerializePage(rep.data)
                    count == Len(customers_data)
                IN /\ raised' = None
                   /\ returned' = Some(CustomerListResponse(customers_data,
                          CustomerListMeta(rep.has_more, count, Some(Note(count)))))
        /\ model' = None
        /\ UNCHANGED <<stripe_api_key, services>>

list_customers(s) ==
    \E la \in ListArgs, rep \in ErrorReplies \cup ListReplies :
      LET limit == la[1]
          starting_after == la[2]
      IN
        /\ op' = "list_customers"
        /\ self' = s
        /\ args' = [limit |-> limit, starting_after |-> starting_after]
        /\ outbound' = <<StripeCall("Customer.list", None,
                                    ListParams(limit, starting_after))>>
        /\ reply' = rep
        /\ IF rep.kind = "error"
           THEN /\ raised' = rep.error
                /\ returned' = None
           ELSE LET customers_data == SerializeListedPage(rep.data)
                IN /\ raised' = None
                   /\ returned' = Some(CustomerListResponse(customers_data,
                          CustomerListMeta(rep.has_more, Len(customers_data), None)))
        /\ model' = None
        /\ UNCHANGED <<stripe_api_key, services>>

Next ==
    \/ NewCustomerCreateInput
    \/ NewCustomerUpdateInput
    \/ StripeService_init
    \/ \E s \in 1..Len(services) : create_customer(s)
    \/ \E s \in 1..Len(services) : get_customer(s)
    \/ \E s \in 1..Len(services) : update_customer(s)
    \/ \E s \in 1..Len(services) : get_customer_by_email(s)
    \/ \E s \in 1..Len(services) : list_customers(s)

Spec == Init /\ [][Next]_vars

(* ----------------------------- properties ----------------------------- *)

Call == outbound[1]
Result == Val(returned)

\* the fields CustomerData shares with a provider record
CopiedFields ==
    {"id", "email", "name", "phone", "description", "created", "balance",
     "currency", "delinquent"}

\* data is the field-by-field copy of the provider record rec
RoundTrips(data, rec) ==
    /\ \A f \in CopiedFields : data[f] = rec[f]
    /\ data.metadata = IF rec.metadata = None THEN {} ELSE Val(rec.metadata)

\* C1: when the provider call of a facade operation fails, the caller receives
\* one of the SDK's API-error kinds whose original_error is the provider's
\* error; a raw provider error never escapes.
C1_ProviderErrorsWrapped ==
    (op \in FacadeOps /\ reply.kind = "error") =>
        /\ raised # None
        /\ Val(raised).cls \in StripeApiErrorKinds
        /\ Val(raised).original_error = reply.error

\* C2: every operation that maps provider records returns CustomerData whose
\* fields equal those of the source record, metadata defaulting to {}.
C2_FieldsRoundTrip ==
    /\ (op \in {"create_customer", "get_customer", "update_customer"}
            /\ returned # None) =>
          RoundTrips(Result.data, Val(reply.record))
    /\ (op \in {"get_customer_by_email", "list_customers"} /\ returned # None) =>
          /\ Len(Result.data) = Len(reply.data)
          /\ \A i \in 1..Len(reply.data) : RoundTrips(Result.data[i], reply.data[i])

\* C3: update_customer sends exactly the fields of the input that are not
\* None, each with the input's value; metadata None is omitted and
\* metadata {} is sent as metadata={}.
C3_UpdateSendsExactlyNonNone ==
    op = "update_customer" =>
        /\ Keys(Call.params) = {f \in InputFields : args.data[f] # None}
        /\ \A f \in Keys(Call.params) : Call.params[f] = Given(args.data[f])
        /\ args.data.metadata = None => Call.params.metadata = Omitted
        /\ args.data.metadata = Some({}) => Call.params.metadata = Given(Some({}))

C3_Witness ==
    /\ op = "update_customer"
    /\ args.data.metadata = Some({})
    /\ args.data.name = None
    /\ Keys(Call.params) = {"phone", "description", "metadata"}

\* C4: the parameters create_customer sends are a subset of the input fields
\* that have a value, and no parameter is ever sent as null.
C4_CreateOmitsAbsent ==
    op = "create_customer" =>
        /\ Keys(Call.params) \subseteq {f \in InputFields : args.data[f] # None}
        /\ \A k \in ParamKeys : Call.params[k] # Given(None)

C4_Witness ==
    /\ op = "create_customer"
    /\ args.data.phone = None
    /\ args.data.description = None
    /\ Keys(Call.params) = {"email", "name"}

\* C5: the outbound limit of list_customers is min(limit, 100): never above
\* 100, and a limit of 100 or less is forwarded unchanged.
C5_LimitClamped ==
    op = "list_customers" =>
        /\ Call.params.limit # Omitted
        /\ Val(Call.params.limit) <= 100
        /\ args.limit <= 100 => Val(Call.params.limit) = args.limit
        /\ args.limit > 100 => Val(Call.params.limit) = 100

C5_Witness ==
    /\ op = "list_customers"
    /\ args.limit = 150
    /\ Call.params.limit = Given(100)
    /\ returned # None

\* the keyword set violates a bound of the schema
OutOfBound(kw) ==
    \/ kw.name # Omitted /\ Val(kw.name) # None
          /\ (Len(Val(Val(kw.name))) = 0 \/ Len(Val(Val(kw.name))) > 255)
    \/ kw.description # Omitted /\ Val(kw.description) # None
          /\ Len(Val(Val(kw.description))) > 500
    \/ kw.email # Omitted /\ Val(kw.email) # None /\ ~IsEmail(Val(Val(kw.email)))

\* the input model satisfies every bound of the schema
InSchema(data) ==
    /\ data.name # None => Len(Val(data.name)) \in 1..255
    /\ data.description # None => Len(Val(data.description)) <= 500
    /\ data.email # None => IsEmail(Val(data.email))

\* C6: constructing an input with an out-of-bound field fails with a
\* validation error and no provider call; no provider call is ever issued for
\* an input that violates the schema; an input with every optional field
\* absent is accepted.
C6_ValidationBeforeNetwork ==
    /\ (op \in {"CustomerCreateInput", "CustomerUpdateInput"} /\ OutOfBound(args.kw)) =>
          /\ raised = Some(ValidationError)
          /\ returned = None
          /\ outbound = <<>>
    /\ (op \in {"create_customer", "update_customer"}) => InSchema(args.data)
    /\ (op \in {"CustomerCreateInput", "CustomerUpdateInput"}
            /\ \A f \in InputFields : args.kw[f] = Omitted) =>
          /\ raised = None
          /\ returned # None

C6_Witness ==
    /\ op = "CustomerCreateInput"
    /\ args.kw.name = Given(Some(<<>>))
    /\ raised = Some(ValidationError)
    /\ outbound = <<>>

\* C7: get_customer_by_email with N matching records sets meta.note to
\* "Found 1 customer" when N = 1 and "Found N customers" otherwise;
\* list_customers leaves meta.note absent.
C7_NotePluralized ==
    /\ (op = "get_customer_by_email" /\ returned # None) =>
          LET n == Len(reply.data) IN
          /\ n = 0 => Result.meta.note = Some("Found 0 customers")
          /\ n = 1 => Result.meta.note = Some("Found 1 customer")
          /\ n = 2 => Result.meta.note = Some("Found 2 customers")
          /\ n # 1 => Result.meta.note = Some("Found " \o ToString(n) \o " customers")
    /\ (op = "list_customers" /\ returned # None) => Result.meta.note = None

C7_Witness ==
    /\ op = "get_customer_by_email"
    /\ returned # None
    /\ Len(reply.data) = 1
    /\ Result.meta.note = Some("Found 1 customer")

\* C8: both list-bearing operations return one CustomerData per provider
\* record, in the provider's order; total_count is the number of records of
\* the page and has_more is the provider's flag.
C8_PageMirrored ==
    (op \in {"get_customer_by_email", "list_customers"} /\ returned # None) =>
        /\ Len(Result.data) = Len(reply.data)
        /\ \A i \in 1..Len(reply.data) : Result.data[i].id = reply.data[i].id
        /\ Result.meta.total_count = Len(reply.data)
        /\ Result.meta.total_count = Len(Result.data)
        /\ Result.meta.has_more = reply.has_more

C8_Witness ==
    /\ op = "list_customers"
    /\ returned # None
    /\ Len(reply.data) = 2
    /\ reply.has_more
    /\ Result.meta.total_count = 2
    /\ Result.data[1].id # Result.data[2].id

\* C9: every provider call made through a facade instance is made with the
\* secret key given to that instance's constructor.
C9_CallsUseOwnKey ==
    op \in FacadeOps =>
        \A i \in 1..Len(outbound) :
            outbound[i].api_key = Some(services[self].secret_key)

\* the provider function each facade operation calls
ProviderFn ==
    [o \in FacadeOps |->
        CASE o = "create_customer" -> "Customer.create"
          [] o = "get_customer" -> "Customer.retrieve"
          [] o = "update_customer" -> "Customer.modify"
          [] OTHER -> "Customer.list"]

\* C10: every facade operation issues exactly one provider call, and either
\* returns a response built from that call's result or raises, with no retry.
C10_OneCallAllOrNothing ==
    op \in FacadeOps =>
        /\ Len(outbound) = 1
        /\ Call.fn = ProviderFn[op]
        /\ \/ /\ reply.kind = "error"
              /\ raised # None
              /\ returned = None
           \/ /\ reply.kind = "record"
              /\ raised = None
              /\ returned # None
              /\ Result.data.id = Val(reply.record).id
           \/ /\ reply.kind = "list"
              /\ raised = None
              /\ returned # None
              /\ Len(Result.data) = Len(reply.data)
              /\ \A i \in 1..Len(reply.data) : Result.data[i].id = reply.data[i].id

C10_Witness ==
    /\ op = "create_customer"
    /\ reply.kind = "error"
    /\ Len(outbound) = 1
    /\ raised = reply.error

====
